---- MODULE Spec2Model ----
(***************************************************************************)
(* A model of the stateful parts of drift-mcp:                             *)
(*                                                                         *)
(*   - the service resolver (serviceDiscovery: parseConfigYaml,            *)
(*     findTuskConfigs, ServiceDiscoveryContext), specification            *)
(*     SpecResolver;                                                       *)
(*   - the HTTP session handlers (server.ts: McpSessionManager,            *)
(*     createHttpHandlers), specifications SpecHttp and SpecManager;       *)
(*   - the API client and the tools of the MCP server (TuskDriftApiClient, *)
(*     createMcpServer), specification SpecTools.                          *)
(*                                                                         *)
(* JavaScript values: a string is a TLA+ string; `undefined` is the value  *)
(* Undefined, which is none of the strings the model draws its inputs      *)
(* from.  Truthy(x) is JavaScript's truthiness of a `string | undefined`.  *)
(***************************************************************************)
EXTENDS Integers, Sequences, FiniteSets, Bags, TLC

VARIABLES
    \* ---- service resolver ----
    fs,                 \* the file system the scan reads
    defaultServiceId,   \* ServiceDiscoveryContext.defaultServiceId
    discoveredServices, \* ServiceDiscoveryContext.discoveredServices
    call,               \* the last call made on the context and its outcome
    \* ---- API client and MCP server tools ----
    serviceContext,     \* TuskDriftApiClient.serviceContext is set
    accessControl,      \* CreateMcpServerOptions.accessControl
    \* ---- HTTP session handlers ----
    transports,         \* McpSessionManager.transports: session id -> transport
    tr,                 \* the StreamableHTTPServerTransport objects constructed so far
    req,                \* the requests whose handler is suspended
    settled,            \* the request whose handler settled in the last step
    createServerCalls,  \* number of calls of options.createServer
    created,            \* number of onSessionCreated calls, by session id
    closed              \* number of onSessionClosed calls, by session id

toolVars == <<serviceContext, accessControl>>
resolverVars == <<fs, defaultServiceId, discoveredServices, call, serviceContext, accessControl>>
httpVars == <<transports, tr, req, settled, createServerCalls, created, closed>>
vars == <<fs, defaultServiceId, discoveredServices, call, serviceContext, accessControl,
          transports, tr, req, settled, createServerCalls, created, closed>>

Undefined == "<undefined>"

Truthy(x) == x # Undefined /\ x # ""

(***************************************************************************)
(* Bounds of the model.                                                    *)
(***************************************************************************)
MaxRoots == 2       \* longest list of roots handed to discoverFromRoots

(***************************************************************************)
(* The file system the scan reads.  A path is the sequence of its names;   *)
(* path.join appends names and path.basename is the last name.             *)
(*                                                                         *)
(* The directory tree is fixed:                                            *)
(*     w  (level 0)                                                        *)
(*       a / b / c / d        (levels 1, 2, 3, 4)                          *)
(*       n                    (level 1)                                    *)
(*       .git, node_modules   (level 1, each always holding a config)      *)
(* What varies (chosen in Init) is the kind of each directory:             *)
(*   "plain"          readable, no .tusk/config.yaml                       *)
(*   "unreadableDir"  no config, and readdirSync throws                    *)
(*   "alpha"          config with service id "svc1" and name "Alpha"       *)
(*   "bare"           config with service id "svc2" and no name            *)
(*   "noid"           config exists, its service section holds no id       *)
(*   "unreadableFile" config exists, readFileSync throws                   *)
(***************************************************************************)
Dirs ==
    { <<"w">>,
      <<"w", "a">>, <<"w", "a", "b">>, <<"w", "a", "b", "c">>,
      <<"w", "a", "b", "c", "d">>,
      <<"w", "n">>, <<"w", ".git">>, <<"w", "node_modules">> }

\* the kinds each directory is drawn from
KindsOf(dir) ==
    CASE dir = <<"w">> -> {"plain", "alpha"}
      [] dir = <<"w", "a">> -> {"plain", "alpha", "noid", "unreadableDir"}
      [] dir = <<"w", "a", "b">> -> {"plain", "bare"}
      [] dir = <<"w", "a", "b", "c">> -> {"plain", "alpha"}
      [] dir = <<"w", "a", "b", "c", "d">> -> {"plain", "bare"}
      [] dir = <<"w", "n">> -> {"plain", "bare", "unreadableFile"}
      [] OTHER -> {"alpha"}

FileSystems ==
    { [dir \in Dirs |->
         CASE dir = <<"w">> -> kw
           [] dir = <<"w", "a">> -> ka
           [] dir = <<"w", "a", "b">> -> kb
           [] dir = <<"w", "a", "b", "c">> -> kc
           [] dir = <<"w", "a", "b", "c", "d">> -> kd
           [] dir = <<"w", "n">> -> kn
           [] OTHER -> "alpha"] :
      kw \in KindsOf(<<"w">>), ka \in KindsOf(<<"w", "a">>),
      kb \in KindsOf(<<"w", "a", "b">>), kc \in KindsOf(<<"w", "a", "b", "c">>),
      kd \in KindsOf(<<"w", "a", "b", "c", "d">>), kn \in KindsOf(<<"w", "n">>) }

\* What fs.readdirSync(dir, {withFileTypes: true}) lists, in the order "fwd";
\* a symbolic link and a regular file are entries that are no directory.
Entries(dir) ==
    CASE dir = <<"w">> ->
           << [name |-> ".git", isDirectory |-> TRUE],
              [name |-> "README.md", isDirectory |-> FALSE],
              [name |-> "a", isDirectory |-> TRUE],
              [name |-> "link", isDirectory |-> FALSE],
              [name |-> "n", isDirectory |-> TRUE],
              [name |-> "node_modules", isDirectory |-> TRUE] >>
      [] dir = <<"w", "a">> -> << [name |-> "b", isDirectory |-> TRUE] >>
      [] dir = <<"w", "a", "b">> -> << [name |-> "c", isDirectory |-> TRUE] >>
      [] dir = <<"w", "a", "b", "c">> -> << [name |-> "d", isDirectory |-> TRUE] >>
      [] OTHER -> << >>

Reverse(s) == [i \in 1..Len(s) |-> s[Len(s) + 1 - i]]

Orders == {"fwd", "rev"}

\* The roots a caller may pass: a directory, a symbolic link to the directory
\* w/a (a root inside the subtree of the root w), and a path that does not exist.
RootChoices == { <<"w">>, <<"lnk">>, <<"missing">> }

RootLists == UNION { [1..n -> RootChoices] : n \in 0..MaxRoots }

\* fs.realpathSync: resolves the symbolic link, throws on a missing path.
realpathThrows(root) == root \notin Dirs /\ root # <<"lnk">>
realpathSync(root) == IF root = <<"lnk">> THEN <<"w", "a">> ELSE root

pathJoin(dir, names) == dir \o names
basename(dir) == dir[Len(dir)]
ConfigNames == <<".tusk", "config.yaml">>
DirOfConfig(configPath) == SubSeq(configPath, 1, Len(configPath) - Len(ConfigNames))

\* entry.name.startsWith("."), over the names of the model
startsWithDot(name) == name \in {".git", ".tusk"}

existsSync(f, configPath) ==
    /\ DirOfConfig(configPath) \in Dirs
    /\ f[DirOfConfig(configPath)] \in {"alpha", "bare", "noid", "unreadableFile"}

readFileThrows(f, configPath) == f[DirOfConfig(configPath)] = "unreadableFile"

\* The text of a config file, as its lines: key, and the text after "key:".
readFileSync(f, configPath) ==
    CASE f[DirOfConfig(configPath)] = "alpha" ->
           << [key |-> "service", val |-> ""],
              [key |-> "id", val |-> "svc1"],
              [key |-> "name", val |-> "Alpha"] >>
      [] f[DirOfConfig(configPath)] = "bare" ->
           << [key |-> "other", val |-> "version: 1"],
              [key |-> "service", val |-> ""],
              [key |-> "id", val |-> "svc2"] >>
      [] OTHER ->
           \* "noid": an id before the service section, none inside it but a blank one
           << [key |-> "id", val |-> "stray"],
              [key |-> "service", val |-> ""],
              [key |-> "name", val |-> "Beta"],
              [key |-> "id", val |-> ""] >>

readdirThrows(f, dir) == dir \notin Dirs \/ f[dir] = "unreadableDir"
readdirSync(dir, ord) == IF ord = "fwd" THEN Entries(dir) ELSE Reverse(Entries(dir))

(***************************************************************************)
(* parseConfigYaml: the two regular expressions                            *)
(*   /service:\s*\n(?:[^\n]*\n)*?\s*KEY:\s*["']?([^"'\n]+)["']?/           *)
(* match the first KEY line that follows the first "service:" line, and    *)
(* capture its text; no match leaves the field undefined.                  *)
(***************************************************************************)
MatchAfterService(content, key) ==
    LET heads == {i \in DOMAIN content : content[i].key = "service" /\ content[i].val = ""}
        hits == {j \in DOMAIN content :
                    /\ content[j].key = key
                    /\ \E i \in heads : i < j}
    IN IF hits = {} THEN Undefined
       ELSE content[CHOOSE j \in hits : \A k \in hits : j <= k].val

parseConfigYaml(f, configPath) ==
    IF readFileThrows(f, configPath)
    THEN [id |-> Undefined, name |-> Undefined]
    ELSE [id |-> MatchAfterService(readFileSync(f, configPath), "id"),
          name |-> MatchAfterService(readFileSync(f, configPath), "name")]

\* program constant: the default of findTuskConfigs' maxDepth parameter
maxDepth == 3

\* mutant: the config is recorded without the `if (parsed.id)` test
RecordService_NoIdTest(st, dir, parsed) ==
    [st EXCEPT !.services =
        Append(@, [id |-> parsed.id,
                   name |-> IF Truthy(parsed.name) THEN parsed.name ELSE basename(dir),
                   configPath |-> pathJoin(dir, ConfigNames),
                   rootPath |-> dir])]

\* services.push({...}) of searchDirectory, for a config that yields an id
RecordService(st, dir, parsed) ==
    IF Truthy(parsed.id)
    THEN [st EXCEPT !.services =
            Append(@, [id |-> parsed.id,
                       name |-> IF Truthy(parsed.name) THEN parsed.name ELSE basename(dir),
                       configPath |-> pathJoin(dir, ConfigNames),
                       rootPath |-> dir])]
    ELSE st

\* the filter of the loop over the entries of a directory
Descend(entry) ==
    /\ entry.isDirectory
    /\ ~startsWithDot(entry.name)
    /\ entry.name # "node_modules"

RECURSIVE searchDirectory(_, _, _, _, _)
RECURSIVE searchEntries(_, _, _, _, _, _, _)

\* mutant: no `return` after a config was found, the subdirectories are searched too
searchDirectory_KeepsDescending(f, ord, dir, depth, st) ==
    IF depth > maxDepth \/ dir \in st.visited
    THEN st
    ELSE LET st1 == [st EXCEPT !.visited = @ \cup {dir}]
             configPath == pathJoin(dir, ConfigNames)
             st2 == IF existsSync(f, configPath)
                    THEN RecordService(st1, dir, parseConfigYaml(f, configPath))
                    ELSE st1
         IN IF readdirThrows(f, dir)
            THEN st2
            ELSE searchEntries(f, ord, dir, depth, readdirSync(dir, ord), 1, st2)

\* st = [services, visited], the two locals of findTuskConfigs the closure updates
searchDirectory(f, ord, dir, depth, st) ==
    IF depth > maxDepth \/ dir \in st.visited
    THEN st
    ELSE LET st1 == [st EXCEPT !.visited = @ \cup {dir}]
             configPath == pathJoin(dir, ConfigNames)
         IN IF existsSync(f, configPath)
            THEN RecordService(st1, dir, parseConfigYaml(f, configPath))
            ELSE IF readdirThrows(f, dir)
                 THEN st1
                 ELSE searchEntries(f, ord, dir, depth, readdirSync(dir, ord), 1, st1)

\* for (const entry of entries) ..., from entry i on
searchEntries(f, ord, dir, depth, entries, i, st) ==
    IF i > Len(entries)
    THEN st
    ELSE searchEntries(f, ord, dir, depth, entries, i + 1,
            IF Descend(entries[i])
            THEN searchDirectory(f, ord, pathJoin(dir, <<entries[i].name>>), depth + 1, st)
            ELSE st)

RECURSIVE searchRoots(_, _, _, _, _)
\* mutant: no try/catch around realpathSync, a root that cannot be resolved
\* ends the loop over the roots
searchRoots_StopsAtBadRoot(f, ord, roots, i, st) ==
    IF i > Len(roots)
    THEN st
    ELSE IF realpathThrows(roots[i])
         THEN st
         ELSE searchRoots(f, ord, roots, i + 1,
                 searchDirectory(f, ord, realpathSync(roots[i]), 0, st))

\* for (const root of roots) ..., from root i on
searchRoots(f, ord, roots, i, st) ==
    IF i > Len(roots)
    THEN st
    ELSE searchRoots(f, ord, roots, i + 1,
            IF realpathThrows(roots[i])
            THEN searchDirectory(f, ord, roots[i], 0, st)
            ELSE searchDirectory(f, ord, realpathSync(roots[i]), 0, st))

findTuskConfigs(f, ord, roots) ==
    searchRoots(f, ord, roots, 1, [services |-> << >>, visited |-> {}]).services

(***************************************************************************)
(* ServiceDiscoveryContext                                                 *)
(***************************************************************************)
\* values of TUSK_DRIFT_SERVICE_ID handed to the constructor
DefaultChoices == {Undefined, "", "envsvc"}

\* values of the providedServiceId argument
ProvidedChoices == {Undefined, "", "explicit"}

Returned(v) == [kind |-> "return", value |-> v, text |-> << >>]
Thrown(text) == [kind |-> "throw", value |-> Undefined, text |-> text]

\* An error text is the sequence of the pieces it is concatenated from.
NoServiceText ==
    << "No Tusk service configured. Either set TUSK_DRIFT_SERVICE_ID ",
       "environment variable or ensure a .tusk/config.yaml exists in your workspace." >>

\* .map((s) => `  - "${s.name}" (id: ${s.id})`).join("\n"), from service i on
RECURSIVE serviceList(_, _)
serviceList(services, i) ==
    IF i > Len(services)
    THEN << >>
    ELSE << "  - \"", services[i].name, "\" (id: ", services[i].id, ")" >>
         \o (IF i < Len(services) THEN << "\n" >> ELSE << >>)
         \o serviceList(services, i + 1)

\* mutant: only the first candidate is listed
MultipleText_FirstOnly(services) ==
    << "Multiple Tusk services found. Please specify observableServiceId:\n" >>
    \o serviceList(SubSeq(services, 1, 1), 1)

MultipleText(services) ==
    << "Multiple Tusk services found. Please specify observableServiceId:\n" >>
    \o serviceList(services, 1)

\* mutant: the configured default wins over the caller's id
resolveServiceId_DefaultFirst(providedServiceId) ==
    IF Truthy(defaultServiceId) THEN Returned(defaultServiceId)
    ELSE IF Truthy(providedServiceId) THEN Returned(providedServiceId)
    ELSE IF Len(discoveredServices) = 1 THEN Returned(discoveredServices[1].id)
    ELSE IF Len(discoveredServices) = 0 THEN Thrown(NoServiceText)
    ELSE Thrown(MultipleText(discoveredServices))

\* mutant: the sole discovered service wins over the configured default
resolveServiceId_DiscoveredFirst(providedServiceId) ==
    IF Truthy(providedServiceId) THEN Returned(providedServiceId)
    ELSE IF Len(discoveredServices) = 1 THEN Returned(discoveredServices[1].id)
    ELSE IF Truthy(defaultServiceId) THEN Returned(defaultServiceId)
    ELSE IF Len(discoveredServices) = 0 THEN Thrown(NoServiceText)
    ELSE Thrown(MultipleText(discoveredServices))

\* mutant: `length >= 1` for `length === 1`, the first of several is used
resolveServiceId_FirstOfMany(providedServiceId) ==
    IF Truthy(providedServiceId) THEN Returned(providedServiceId)
    ELSE IF Truthy(defaultServiceId) THEN Returned(defaultServiceId)
    ELSE IF Len(discoveredServices) >= 1 THEN Returned(discoveredServices[1].id)
    ELSE Thrown(NoServiceText)

\* The outcome of resolveServiceId(providedServiceId) in the current state.
resolveServiceId(providedServiceId) ==
    IF Truthy(providedServiceId) THEN Returned(providedServiceId)
    ELSE IF Truthy(defaultServiceId) THEN Returned(defaultServiceId)
    ELSE IF Len(discoveredServices) = 1 THEN Returned(discoveredServices[1].id)
    ELSE IF Len(discoveredServices) = 0 THEN Thrown(NoServiceText)
    ELSE Thrown(MultipleText(discoveredServices))

\* .map((s) => `- "${s.name}" (id: ${s.id}, path: ${s.rootPath})`).join("\n"),
\* from service i on
RECURSIVE describedList(_, _)
describedList(services, i) ==
    IF i > Len(services)
    THEN << >>
    ELSE << "- \"", services[i].name, "\" (id: ", services[i].id,
            ", path: ", services[i].rootPath, ")" >>
         \o (IF i < Len(services) THEN << "\n" >> ELSE << >>)
         \o describedList(services, i + 1)

\* the text of getServicesDescription, as the pieces it is put together from
getServicesDescription ==
    IF Len(discoveredServices) = 0
    THEN IF Truthy(defaultServiceId)
         THEN << "Using configured service: ", defaultServiceId >>
         ELSE << "No services discovered." >>
    ELSE IF Len(discoveredServices) = 1
         THEN << "Using service: \"", discoveredServices[1].name,
                 "\" (id: ", discoveredServices[1].id,
                 ", path: ", discoveredServices[1].rootPath, ")" >>
         ELSE << "Multiple services available. Specify observableServiceId when querying:\n" >>
              \o describedList(discoveredServices, 1)

ResolverInit ==
    /\ fs \in FileSystems
    /\ defaultServiceId \in DefaultChoices
    /\ discoveredServices = << >>
    /\ call = [op |-> "new"]
    /\ serviceContext = FALSE
    /\ accessControl = [configured |-> FALSE, denied |-> {}]
    /\ transports = << >>
    /\ tr = << >>
    /\ req = EmptyBag
    /\ settled = << >>
    /\ createServerCalls = 0
    /\ created = << >>
    /\ closed = << >>

\* mutant: the services of a scan are added to those already held
discoverFromRoots_Appends(roots, ord) ==
    /\ discoveredServices' = discoveredServices \o findTuskConfigs(fs, ord, roots)
    /\ call' = [op |-> "discoverFromRoots", roots |-> roots]
    /\ UNCHANGED <<fs, defaultServiceId>>
    /\ UNCHANGED toolVars
    /\ UNCHANGED httpVars

discoverFromRoots(roots, ord) ==
    /\ discoveredServices' = findTuskConfigs(fs, ord, roots)
    /\ call' = [op |-> "discoverFromRoots", roots |-> roots]
    /\ UNCHANGED <<fs, defaultServiceId>>
    /\ UNCHANGED toolVars
    /\ UNCHANGED httpVars

ResolveServiceId(provided) ==
    /\ call' = [op |-> "resolveServiceId", provided |-> provided,
                outcome |-> resolveServiceId(provided)]
    /\ UNCHANGED <<fs, defaultServiceId, discoveredServices>>
    /\ UNCHANGED toolVars
    /\ UNCHANGED httpVars

GetServicesDescription ==
    /\ call' = [op |-> "getServicesDescription", text |-> getServicesDescription]
    /\ UNCHANGED <<fs, defaultServiceId, discoveredServices>>
    /\ UNCHANGED toolVars
    /\ UNCHANGED httpVars

ResolverNext ==
    \/ \E roots \in RootLists, ord \in Orders : discoverFromRoots(roots, ord)
    \/ \E provided \in ProvidedChoices : ResolveServiceId(provided)
    \/ GetServicesDescription

SpecResolver == ResolverInit /\ [][ResolverNext]_vars

(***************************************************************************)
(* McpSessionManager: the map from session id to transport.  A transport   *)
(* is named by its index in tr (the order of construction); 0 is no        *)
(* transport.                                                              *)
(***************************************************************************)
has(m, sessionId) == sessionId \in DOMAIN m
get(m, sessionId) == IF sessionId \in DOMAIN m THEN m[sessionId] ELSE 0
set(m, sessionId, transport) ==
    [x \in DOMAIN m \cup {sessionId} |-> IF x = sessionId THEN transport ELSE m[x]]
delete(m, sessionId) == [x \in DOMAIN m \ {sessionId} |-> m[x]]

\* mutant: delete reports success whether or not an entry existed
deleteReturns_AlwaysTrue(m, sessionId) == TRUE

\* the value delete returns: Map.prototype.delete tells whether the key existed
deleteReturns(m, sessionId) == sessionId \in DOMAIN m
getSessionIds(m) == DOMAIN m
clear(m) == << >>

(***************************************************************************)
(* createHttpHandlers.  A handler runs without interruption up to its next *)
(* await; each action below is one such stretch.  req is the bag of the    *)
(* requests whose handler is suspended; when a handler's promise settles,  *)
(* its request leaves req and is `settled` in the state the step leads to  *)
(* (NoRequest after any other step).  A request:                           *)
(*   method, sid (the mcp-session-id header), body (of a POST),            *)
(*   known      the header named a session of the map when the handler ran *)
(*   transport  the transport the handler holds (0: none)                  *)
(*   pc         where the handler is suspended, or "done" / "rejected"     *)
(*              (its promise resolved / rejected)                          *)
(*   status     the status of the response sent (0: none)                  *)
(*   byHandler  the response was written by the handler, not the transport *)
(*   didInit    the transport reported initialization while handling it    *)
(*   closeFails the transport.close() the handler called will reject       *)
(*   onError    the handler called options.onError                         *)
(***************************************************************************)
MaxInFlight == 2    \* requests whose handler is suspended at the same time
MaxTransports == 2  \* transports constructed in a run

\* crypto.randomUUID(): a fresh id at each call
IdNames == << "s1", "s2", "s3", "s4" >>
\* mutant: the generator returns the same id at every call
randomUUID_Repeats == IdNames[1]
randomUUID == IdNames[1 + Cardinality({t \in DOMAIN tr : tr[t].sessionId # Undefined})]

\* the mcp-session-id header of an arriving request: absent, an id the server
\* never issued, or an id it has issued
HeaderChoices ==
    {Undefined, "ghost"} \cup {tr[t].sessionId : t \in DOMAIN tr}

Bodies == {"initialize", "other"}

NewRequest(method, sessionId, body) ==
    [method |-> method, sid |-> sessionId, body |-> body,
     known |-> Truthy(sessionId) /\ has(transports, sessionId),
     transport |-> 0, pc |-> "done", status |-> 0, byHandler |-> FALSE,
     didInit |-> FALSE, closeFails |-> FALSE, onError |-> FALSE]

\* new StreamableHTTPServerTransport({...})
NewTransport ==
    [sessionId |-> Undefined, onclose |-> FALSE, connected |-> FALSE,
     closed |-> FALSE]

\* res.status(code).json(...) / .send() by the handler, which then returns
Respond(r, code) == [r EXCEPT !.status = code, !.byHandler = TRUE, !.pc = "done"]

\* number of onSessionCreated / onSessionClosed calls made with a session id
Count(log, sessionId) == IF sessionId \in DOMAIN log THEN log[sessionId] ELSE 0
Bump(log, sessionId) ==
    [x \in DOMAIN log \cup {sessionId} |->
        IF x = sessionId THEN Count(log, sessionId) + 1 ELSE log[x]]

NoRequest ==
    [method |-> "none", sid |-> Undefined, body |-> "none", known |-> FALSE,
     transport |-> 0, pc |-> "done", status |-> 0, byHandler |-> FALSE,
     didInit |-> FALSE, closeFails |-> FALSE, onError |-> FALSE]

\* the handler of request q runs on and is suspended again, the request now r
Suspend(q, r) ==
    /\ req' = (req (-) SetToBag({q})) (+) SetToBag({r})
    /\ settled' = NoRequest

\* the handler of an arriving request r runs and is suspended
Begin(r) ==
    /\ BagCardinality(req) < MaxInFlight
    /\ req' = req (+) SetToBag({r})
    /\ settled' = NoRequest

\* the handler of request q runs on to its end, the request ending as r
Settle(q, r) ==
    /\ req' = req (-) SetToBag({q})
    /\ settled' = r

\* the handler of an arriving request runs to its end, the request ending as r
SettleAtOnce(r) ==
    /\ settled' = r
    /\ UNCHANGED req

HttpInit ==
    /\ fs = [dir \in Dirs |-> IF KindsOf(dir) = {"alpha"} THEN "alpha" ELSE "plain"]
    /\ defaultServiceId = Undefined
    /\ discoveredServices = << >>
    /\ call = [op |-> "new"]
    /\ serviceContext = FALSE
    /\ accessControl = [configured |-> FALSE, denied |-> {}]
    /\ transports = << >>
    /\ tr = << >>
    /\ req = EmptyBag
    /\ settled = NoRequest
    /\ createServerCalls = 0
    /\ created = << >>
    /\ closed = << >>

\* mutant: the entry is installed when the transport is constructed
handlePost_InstallsEarly(sessionId, body) ==
    /\ IF Truthy(sessionId) /\ has(transports, sessionId)
       THEN /\ Begin([NewRequest("POST", sessionId, body) EXCEPT
                          !.transport = get(transports, sessionId),
                          !.pc = "handling"])
            /\ UNCHANGED <<tr, createServerCalls, transports, created>>
       ELSE /\ Len(tr) < MaxTransports
            /\ tr' = Append(tr, [NewTransport EXCEPT !.sessionId = randomUUID])
            /\ transports' = set(transports, randomUUID, Len(tr) + 1)
            /\ created' = Bump(created, randomUUID)
            /\ createServerCalls' = createServerCalls + 1
            /\ Begin([NewRequest("POST", sessionId, body) EXCEPT
                          !.transport = Len(tr) + 1,
                          !.pc = "createServer"])
    /\ UNCHANGED closed
    /\ UNCHANGED resolverVars

\* mutant: the map is not consulted, every POST constructs a transport
handlePost_AlwaysNew(sessionId, body) ==
    /\ Len(tr) < MaxTransports
    /\ tr' = Append(tr, NewTransport)
    /\ createServerCalls' = createServerCalls + 1
    /\ Begin([NewRequest("POST", sessionId, body) EXCEPT
                  !.transport = Len(tr) + 1,
                  !.pc = "createServer"])
    /\ UNCHANGED <<transports, created, closed>>
    /\ UNCHANGED resolverVars

\* handlePost up to its first await: a known session id reuses the stored
\* transport and calls its handleRequest; otherwise a transport is constructed
\* and createServer() is called.
handlePost(sessionId, body) ==
    /\ IF Truthy(sessionId) /\ has(transports, sessionId)
       THEN /\ Begin([NewRequest("POST", sessionId, body) EXCEPT
                          !.transport = get(transports, sessionId),
                          !.pc = "handling"])
            /\ UNCHANGED <<tr, createServerCalls>>
       ELSE /\ Len(tr) < MaxTransports
            /\ tr' = Append(tr, NewTransport)
            /\ createServerCalls' = createServerCalls + 1
            /\ Begin([NewRequest("POST", sessionId, body) EXCEPT
                          !.transport = Len(tr) + 1,
                          !.pc = "createServer"])
    /\ UNCHANGED <<transports, created, closed>>
    /\ UNCHANGED resolverVars

\* `await createServer()` resolves: the teardown hook is set and
\* server.connect(transport) is called.
CreateServerResolves(q) ==
    /\ q.pc = "createServer"
    /\ tr' = [tr EXCEPT ![q.transport].onclose = TRUE]
    /\ Suspend(q, [q EXCEPT !.pc = "connect"])
    /\ UNCHANGED <<transports, createServerCalls, created, closed>>
    /\ UNCHANGED resolverVars

\* `await createServer()` rejects: handlePost has no handler around it
CreateServerRejects(q) ==
    /\ q.pc = "createServer"
    /\ Settle(q, [q EXCEPT !.pc = "rejected"])
    /\ UNCHANGED <<transports, tr, createServerCalls, created, closed>>
    /\ UNCHANGED resolverVars

\* `await server.connect(transport)` resolves: transport.handleRequest is called
ConnectResolves(q) ==
    /\ q.pc = "connect"
    /\ tr' = [tr EXCEPT ![q.transport].connected = TRUE]
    /\ Suspend(q, [q EXCEPT !.pc = "handling"])
    /\ UNCHANGED <<transports, createServerCalls, created, closed>>
    /\ UNCHANGED resolverVars

\* `await server.connect(transport)` rejects
ConnectRejects(q) ==
    /\ q.pc = "connect"
    /\ Settle(q, [q EXCEPT !.pc = "rejected"])
    /\ UNCHANGED <<transports, tr, createServerCalls, created, closed>>
    /\ UNCHANGED resolverVars

\* the transport of request i can still report initialization for it
AwaitsInitialization(q) ==
    /\ q.method = "POST" /\ q.body = "initialize"
    /\ tr[q.transport].sessionId = Undefined
    /\ ~tr[q.transport].closed

\* mutant: the session id is the one the client sent, when it sent one
SessionInitialized_ClientChoosesId(q) ==
    LET id == IF Truthy(q.sid) THEN q.sid ELSE randomUUID IN
    /\ q.pc = "handling"
    /\ AwaitsInitialization(q)
    /\ tr' = [tr EXCEPT ![q.transport].sessionId = id]
    /\ transports' = set(transports, id, q.transport)
    /\ created' = Bump(created, id)
    /\ Suspend(q, [q EXCEPT !.didInit = TRUE])
    /\ UNCHANGED <<createServerCalls, closed>>
    /\ UNCHANGED resolverVars

\* The transport, handling an initialize request, generates its session id and
\* calls onsessioninitialized: the entry is installed, onSessionCreated is called.
SessionInitialized(q) ==
    /\ q.pc = "handling"
    /\ AwaitsInitialization(q)
    /\ tr' = [tr EXCEPT ![q.transport].sessionId = randomUUID]
    /\ transports' = set(transports, randomUUID, q.transport)
    /\ created' = Bump(created, randomUUID)
    /\ Suspend(q, [q EXCEPT !.didInit = TRUE])
    /\ UNCHANGED <<createServerCalls, closed>>
    /\ UNCHANGED resolverVars

\* the status the transport itself answers with
TransportStatus(r) ==
    IF r.method = "POST" /\ r.body = "initialize"
    THEN IF r.didInit THEN 200 ELSE 400
    ELSE IF tr[r.transport].sessionId # Undefined THEN 200 ELSE 400

\* `await transport.handleRequest(...)` resolves: the transport has answered
HandleRequestResolves(q) ==
    /\ q.pc = "handling"
    /\ ~AwaitsInitialization(q)
    /\ Settle(q, [q EXCEPT !.status = TransportStatus(q), !.pc = "done"])
    /\ UNCHANGED <<transports, tr, createServerCalls, created, closed>>
    /\ UNCHANGED resolverVars

\* mutant: no try/catch around transport.handleRequest
HandleRequestRejects_Propagates(q, headersSent) ==
    /\ q.pc = "handling"
    /\ Settle(q, IF headersSent
                 THEN [q EXCEPT !.status = TransportStatus(q), !.pc = "rejected"]
                 ELSE [q EXCEPT !.pc = "rejected"])
    /\ UNCHANGED <<transports, tr, createServerCalls, created, closed>>
    /\ UNCHANGED resolverVars

\* `await transport.handleRequest(...)` rejects: the catch block calls onError
\* and answers 500 unless the transport has sent headers already
HandleRequestRejects(q, headersSent) ==
    /\ q.pc = "handling"
    /\ Settle(q, IF headersSent
                 THEN [q EXCEPT !.onError = TRUE,
                                     !.status = TransportStatus(q),
                                     !.pc = "done"]
                 ELSE Respond([q EXCEPT !.onError = TRUE], 500))
    /\ UNCHANGED <<transports, tr, createServerCalls, created, closed>>
    /\ UNCHANGED resolverVars

\* mutant: only `!sessionId` is tested; for an unknown id get() is undefined,
\* the call on it throws inside the try block and is answered 500
handleGet_PresenceOnly(sessionId) ==
    /\ IF ~Truthy(sessionId)
       THEN SettleAtOnce(Respond(NewRequest("GET", sessionId, "none"), 400))
       ELSE IF ~has(transports, sessionId)
            THEN SettleAtOnce(Respond([NewRequest("GET", sessionId, "none") EXCEPT
                                          !.onError = TRUE], 500))
            ELSE Begin([NewRequest("GET", sessionId, "none") EXCEPT
                           !.transport = get(transports, sessionId),
                           !.pc = "handling"])
    /\ UNCHANGED <<transports, tr, createServerCalls, created, closed>>
    /\ UNCHANGED resolverVars

\* handleGet: a request with no or an unknown session id is answered 400;
\* otherwise the stored transport's handleRequest is called.
handleGet(sessionId) ==
    /\ IF ~Truthy(sessionId) \/ ~has(transports, sessionId)
       THEN SettleAtOnce(Respond(NewRequest("GET", sessionId, "none"), 400))
       ELSE Begin([NewRequest("GET", sessionId, "none") EXCEPT
                      !.transport = get(transports, sessionId),
                      !.pc = "handling"])
    /\ UNCHANGED <<transports, tr, createServerCalls, created, closed>>
    /\ UNCHANGED resolverVars

\* mutant: the teardown hook does not test `if (sid)`
OnClose_NoSidTest(t, m, log) ==
    IF tr[t].onclose
    THEN <<delete(m, tr[t].sessionId), Bump(log, tr[t].sessionId)>>
    ELSE <<m, log>>

\* mutant: the teardown hook empties the map
OnClose_ClearsAll(t, m, log) ==
    IF tr[t].onclose /\ Truthy(tr[t].sessionId)
    THEN << << >>, Bump(log, tr[t].sessionId) >>
    ELSE <<m, log>>

\* transport.onclose as handlePost sets it: with a session id, the entry is
\* deleted and onSessionClosed is called.  The pair is <<map, closed calls>>.
OnClose(t, m, log) ==
    IF tr[t].onclose /\ Truthy(tr[t].sessionId)
    THEN <<delete(m, tr[t].sessionId), Bump(log, tr[t].sessionId)>>
    ELSE <<m, log>>

\* mutant: the entry is deleted without closing the transport
handleDelete_NoClose(sessionId, closeFails) ==
    /\ ~closeFails
    /\ IF ~Truthy(sessionId)
       THEN SettleAtOnce(Respond(NewRequest("DELETE", sessionId, "none"), 400))
       ELSE IF has(transports, sessionId)
            THEN Begin([NewRequest("DELETE", sessionId, "none") EXCEPT
                           !.transport = get(transports, sessionId),
                           !.pc = "closing"])
            ELSE SettleAtOnce(Respond(NewRequest("DELETE", sessionId, "none"), 204))
    /\ UNCHANGED <<transports, tr, closed, createServerCalls, created>>
    /\ UNCHANGED resolverVars

\* mutant: a request without a session id is acknowledged like an unknown id
handleDelete_MissingIsNoop(sessionId, closeFails) ==
    /\ IF ~Truthy(sessionId) \/ ~has(transports, sessionId)
       THEN /\ ~closeFails
            /\ SettleAtOnce(Respond(NewRequest("DELETE", sessionId, "none"), 204))
            /\ UNCHANGED <<transports, tr, closed>>
       ELSE LET t == get(transports, sessionId) IN
            /\ Begin([NewRequest("DELETE", sessionId, "none") EXCEPT
                         !.transport = t,
                         !.pc = "closing",
                         !.closeFails = closeFails])
            /\ IF closeFails
               THEN UNCHANGED <<transports, tr, closed>>
               ELSE /\ tr' = [tr EXCEPT ![t].closed = TRUE]
                    /\ transports' = OnClose(t, transports, closed)[1]
                    /\ closed' = OnClose(t, transports, closed)[2]
    /\ UNCHANGED <<createServerCalls, created>>
    /\ UNCHANGED resolverVars

\* handleDelete up to its await: no id is answered 400, an unknown id 204; for
\* a known id transport.close() is called, which signals closure through
\* transport.onclose before its promise settles.
handleDelete(sessionId, closeFails) ==
    /\ IF ~Truthy(sessionId)
       THEN /\ ~closeFails
            /\ SettleAtOnce(Respond(NewRequest("DELETE", sessionId, "none"), 400))
            /\ UNCHANGED <<transports, tr, closed>>
       ELSE IF has(transports, sessionId)
            THEN LET t == get(transports, sessionId) IN
                 /\ Begin([NewRequest("DELETE", sessionId, "none") EXCEPT
                              !.transport = t,
                              !.pc = "closing",
                              !.closeFails = closeFails])
                 /\ IF closeFails
                    THEN UNCHANGED <<transports, tr, closed>>
                    ELSE /\ tr' = [tr EXCEPT ![t].closed = TRUE]
                         /\ transports' = OnClose(t, transports, closed)[1]
                         /\ closed' = OnClose(t, transports, closed)[2]
            ELSE /\ ~closeFails
                 /\ SettleAtOnce(Respond(NewRequest("DELETE", sessionId, "none"), 204))
                 /\ UNCHANGED <<transports, tr, closed>>
    /\ UNCHANGED <<createServerCalls, created>>
    /\ UNCHANGED resolverVars

\* `await transport.close()` resolves: the entry is deleted, onSessionClosed is
\* called and 204 is sent
CloseResolves(q) ==
    /\ q.pc = "closing"
    /\ ~q.closeFails
    /\ transports' = delete(transports, q.sid)
    /\ closed' = Bump(closed, q.sid)
    /\ Settle(q, Respond(q, 204))
    /\ UNCHANGED <<tr, createServerCalls, created>>
    /\ UNCHANGED resolverVars

\* `await transport.close()` rejects: handleDelete has no handler around it
CloseRejects(q) ==
    /\ q.pc = "closing"
    /\ q.closeFails
    /\ Settle(q, [q EXCEPT !.pc = "rejected"])
    /\ UNCHANGED <<transports, tr, createServerCalls, created, closed>>
    /\ UNCHANGED resolverVars

\* The transport closes by itself (the server it was handed to is closed):
\* it signals closure through transport.onclose.
TransportCloses(t) ==
    /\ tr[t].onclose
    /\ ~tr[t].closed
    /\ tr' = [tr EXCEPT ![t].closed = TRUE]
    /\ transports' = OnClose(t, transports, closed)[1]
    /\ closed' = OnClose(t, transports, closed)[2]
    /\ settled' = NoRequest
    /\ UNCHANGED <<req, createServerCalls, created>>
    /\ UNCHANGED resolverVars

HttpNext ==
    \/ \E sessionId \in HeaderChoices, body \in Bodies : handlePost(sessionId, body)
    \/ \E sessionId \in HeaderChoices : handleGet(sessionId)
    \/ \E sessionId \in HeaderChoices, closeFails \in BOOLEAN :
          handleDelete(sessionId, closeFails)
    \/ \E q \in BagToSet(req) : CreateServerResolves(q)
    \/ \E q \in BagToSet(req) : CreateServerRejects(q)
    \/ \E q \in BagToSet(req) : ConnectResolves(q)
    \/ \E q \in BagToSet(req) : ConnectRejects(q)
    \/ \E q \in BagToSet(req) : SessionInitialized(q)
    \/ \E q \in BagToSet(req) : HandleRequestResolves(q)
    \/ \E q \in BagToSet(req), headersSent \in BOOLEAN : HandleRequestRejects(q, headersSent)
    \/ \E q \in BagToSet(req) : CloseResolves(q)
    \/ \E q \in BagToSet(req) : CloseRejects(q)
    \/ \E t \in DOMAIN tr : TransportCloses(t)

SpecHttp == HttpInit /\ [][HttpNext]_vars

\* The handlers with the scheduling the event loop gives them: a handler that
\* is suspended at an await runs on when the awaited promise settles.  Nothing
\* obliges a client to send a request or a transport to close by itself.
Continues ==
    \E q \in BagToSet(req) :
        \/ CreateServerResolves(q) \/ CreateServerRejects(q)
        \/ ConnectResolves(q) \/ ConnectRejects(q)
        \/ SessionInitialized(q)
        \/ HandleRequestResolves(q)
        \/ \E headersSent \in BOOLEAN : HandleRequestRejects(q, headersSent)
        \/ CloseResolves(q) \/ CloseRejects(q)

SpecHttpLive == HttpInit /\ [][HttpNext]_vars /\ WF_vars(Continues)

(***************************************************************************)
(* createHttpHandlers with a session manager the caller passed in          *)
(* (options.sessionManager) and keeps using: besides the handlers' steps,  *)
(* the caller replaces the transport of an entry through set.              *)
(***************************************************************************)
SharedInit ==
    /\ fs = [dir \in Dirs |-> IF KindsOf(dir) = {"alpha"} THEN "alpha" ELSE "plain"]
    /\ defaultServiceId = Undefined
    /\ discoveredServices = << >>
    /\ call = [op |-> "new"]
    /\ serviceContext = FALSE
    /\ accessControl = [configured |-> FALSE, denied |-> {}]
    /\ transports = << >>
    /\ tr = << >>
    /\ req = EmptyBag
    /\ settled = NoRequest
    /\ createServerCalls = 0
    /\ created = << >>
    /\ closed = << >>

\* sessionManager.set(sessionId, transport) by the caller, on an entry of the map
CallerSets(sessionId, t) ==
    /\ has(transports, sessionId)
    /\ get(transports, sessionId) # t
    /\ transports' = set(transports, sessionId, t)
    /\ settled' = NoRequest
    /\ UNCHANGED <<tr, req, createServerCalls, created, closed>>
    /\ UNCHANGED resolverVars

SharedNext ==
    \/ HttpNext
    \/ \E sessionId \in DOMAIN transports, t \in DOMAIN tr : CallerSets(sessionId, t)

SpecShared == SharedInit /\ [][SharedNext]_vars

(***************************************************************************)
(* McpSessionManager on its own: its methods called in any order with any  *)
(* arguments.  `call` is the last call, with the value it returned.        *)
(***************************************************************************)
ManagerIds == {"s1", "s2", "s3"}
ManagerTransports == {1, 2}

ManagerInit ==
    /\ fs = [dir \in Dirs |-> IF KindsOf(dir) = {"alpha"} THEN "alpha" ELSE "plain"]
    /\ defaultServiceId = Undefined
    /\ discoveredServices = << >>
    /\ call = [op |-> "new"]
    /\ serviceContext = FALSE
    /\ accessControl = [configured |-> FALSE, denied |-> {}]
    /\ transports = << >>
    /\ tr = << >>
    /\ req = EmptyBag
    /\ settled = NoRequest
    /\ createServerCalls = 0
    /\ created = << >>
    /\ closed = << >>

ManagerGet(sessionId) ==
    /\ call' = [op |-> "get", sid |-> sessionId, result |-> get(transports, sessionId)]
    /\ UNCHANGED transports
    /\ UNCHANGED <<fs, defaultServiceId, discoveredServices>>
    /\ UNCHANGED toolVars
    /\ UNCHANGED <<tr, req, settled, createServerCalls, created, closed>>

ManagerSet(sessionId, transport) ==
    /\ transports' = set(transports, sessionId, transport)
    /\ call' = [op |-> "set", sid |-> sessionId, transport |-> transport]
    /\ UNCHANGED <<fs, defaultServiceId, discoveredServices>>
    /\ UNCHANGED toolVars
    /\ UNCHANGED <<tr, req, settled, createServerCalls, created, closed>>

ManagerDelete(sessionId) ==
    /\ transports' = delete(transports, sessionId)
    /\ call' = [op |-> "delete", sid |-> sessionId,
                result |-> deleteReturns(transports, sessionId)]
    /\ UNCHANGED <<fs, defaultServiceId, discoveredServices>>
    /\ UNCHANGED toolVars
    /\ UNCHANGED <<tr, req, settled, createServerCalls, created, closed>>

ManagerHas(sessionId) ==
    /\ call' = [op |-> "has", sid |-> sessionId, result |-> has(transports, sessionId)]
    /\ UNCHANGED transports
    /\ UNCHANGED <<fs, defaultServiceId, discoveredServices>>
    /\ UNCHANGED toolVars
    /\ UNCHANGED <<tr, req, settled, createServerCalls, created, closed>>

ManagerGetSessionIds ==
    /\ call' = [op |-> "getSessionIds", result |-> getSessionIds(transports)]
    /\ UNCHANGED transports
    /\ UNCHANGED <<fs, defaultServiceId, discoveredServices>>
    /\ UNCHANGED toolVars
    /\ UNCHANGED <<tr, req, settled, createServerCalls, created, closed>>

ManagerClear ==
    /\ transports' = clear(transports)
    /\ call' = [op |-> "clear"]
    /\ UNCHANGED <<fs, defaultServiceId, discoveredServices>>
    /\ UNCHANGED toolVars
    /\ UNCHANGED <<tr, req, settled, createServerCalls, created, closed>>

ManagerNext ==
    \/ \E sessionId \in ManagerIds : ManagerGet(sessionId)
    \/ \E sessionId \in ManagerIds, transport \in ManagerTransports :
          ManagerSet(sessionId, transport)
    \/ \E sessionId \in ManagerIds : ManagerDelete(sessionId)
    \/ \E sessionId \in ManagerIds : ManagerHas(sessionId)
    \/ ManagerGetSessionIds
    \/ ManagerClear

SpecManager == ManagerInit /\ [][ManagerNext]_vars

(***************************************************************************)
(* TuskDriftApiClient and the tools createMcpServer registers.  A tool     *)
(* input is a record; observableServiceId = Undefined is an input without  *)
(* that key.  `call` is the last tool call: its input, the outcome of the  *)
(* access check and of the resolution, and the requests sent to the remote *)
(* engine (fetched).  The resolver's state is only read by a tool call.    *)
(***************************************************************************)
ToolInputs == { [observableServiceId |-> p, limit |-> "10"] : p \in ProvidedChoices }

\* the services canAccessService may deny
DeniedChoices == SUBSET {"svc1", "envsvc", "explicit"}

NoContextText ==
    << "No service ID provided and no service context configured. ",
       "Set TUSK_DRIFT_SERVICE_ID or ensure a .tusk/config.yaml exists." >>

\* TuskDriftApiClient.resolveServiceId (private)
clientResolveServiceId(providedServiceId) ==
    IF serviceContext THEN resolveServiceId(providedServiceId)
    ELSE IF Truthy(providedServiceId) THEN Returned(providedServiceId)
    ELSE Thrown(NoContextText)

\* mutant: the whole input is spread into the body
Rest_KeepsAll(input) == input

\* const { observableServiceId, ...rest } = input
Rest(input) == [k \in DOMAIN input \ {"observableServiceId"} |-> input[k]]

\* { ...a, ...b }: the keys of b win
Spread(a, b) == [k \in DOMAIN a \cup DOMAIN b |-> IF k \in DOMAIN b THEN b[k] ELSE a[k]]

\* this.request(endpoint, { observableServiceId: this.resolveServiceId(...), ...rest }):
\* the argument is evaluated first, so a failed resolution sends nothing
request(endpoint, input) ==
    LET resolved == clientResolveServiceId(input.observableServiceId) IN
    [outcome |-> resolved,
     fetched |-> IF resolved.kind = "return"
                 THEN << [endpoint |-> endpoint,
                          body |-> Spread([observableServiceId |-> resolved.value],
                                          Rest(input))] >>
                 ELSE << >>]

querySpans(input) == request("/spans", input)
getSchema(input) == request("/schema", input)
getSpansByIds(input) == request("/spans-by-id", input)
listDistinctValues(input) == request("/distinct", input)
aggregateSpans(input) == request("/aggregate", input)
getTrace(input) == request("/trace", input)

\* checkAccess of createMcpServer
checkAccess(observableServiceId) ==
    IF ~accessControl.configured THEN TRUE
    ELSE observableServiceId \notin accessControl.denied

AccessDenied ==
    [outcome |-> [kind |-> "denied", value |-> Undefined,
                  text |-> << "Error: Access denied to observable service" >>],
     fetched |-> << >>]

\* the handler of a tool: the access check on the id of the input, then the
\* provider's operation
Tool(name, input, result) ==
    /\ call' = [op |-> name, input |-> input,
                outcome |-> (IF Truthy(input.observableServiceId)
                                /\ ~checkAccess(input.observableServiceId)
                             THEN AccessDenied ELSE result).outcome,
                fetched |-> (IF Truthy(input.observableServiceId)
                                /\ ~checkAccess(input.observableServiceId)
                             THEN AccessDenied ELSE result).fetched]
    /\ UNCHANGED <<fs, defaultServiceId, discoveredServices>>
    /\ UNCHANGED toolVars
    /\ UNCHANGED httpVars

query_spans(input) == Tool("query_spans", input, querySpans(input))
get_schema(input) == Tool("get_schema", input, getSchema(input))
list_distinct_values(input) == Tool("list_distinct_values", input, listDistinctValues(input))
aggregate_spans(input) == Tool("aggregate_spans", input, aggregateSpans(input))
get_trace(input) == Tool("get_trace", input, getTrace(input))
get_spans_by_ids(input) == Tool("get_spans_by_ids", input, getSpansByIds(input))

ToolNames ==
    {"query_spans", "get_schema", "list_distinct_values", "aggregate_spans",
     "get_trace", "get_spans_by_ids"}

setServiceContext ==
    /\ serviceContext' = TRUE
    /\ call' = [op |-> "setServiceContext"]
    /\ UNCHANGED <<fs, defaultServiceId, discoveredServices, accessControl>>
    /\ UNCHANGED httpVars

\* the file system: w/a holds the config of svc1, w/n that of svc2, so that the
\* roots give no, one or two discovered services
ToolsInit ==
    /\ fs = [dir \in Dirs |->
               CASE dir = <<"w", "a">> -> "alpha"
                 [] dir = <<"w", "n">> -> "bare"
                 [] dir \in {<<"w", ".git">>, <<"w", "node_modules">>} -> "alpha"
                 [] OTHER -> "plain"]
    /\ defaultServiceId \in DefaultChoices
    /\ discoveredServices = << >>
    /\ call = [op |-> "new"]
    /\ serviceContext = FALSE
    /\ accessControl \in
          {[configured |-> FALSE, denied |-> {}]}
          \cup {[configured |-> TRUE, denied |-> d] : d \in DeniedChoices}
    /\ transports = << >>
    /\ tr = << >>
    /\ req = EmptyBag
    /\ settled = NoRequest
    /\ createServerCalls = 0
    /\ created = << >>
    /\ closed = << >>

ToolsNext ==
    \/ \E roots \in RootLists, ord \in Orders : discoverFromRoots(roots, ord)
    \/ setServiceContext
    \/ \E input \in ToolInputs : query_spans(input)
    \/ \E input \in ToolInputs : get_schema(input)
    \/ \E input \in ToolInputs : list_distinct_values(input)
    \/ \E input \in ToolInputs : aggregate_spans(input)
    \/ \E input \in ToolInputs : get_trace(input)
    \/ \E input \in ToolInputs : get_spans_by_ids(input)

SpecTools == ToolsInit /\ [][ToolsNext]_vars

(***************************************************************************)
(* Claims about the service resolver, checked under SpecResolver.  `call`  *)
(* is the last call; resolveServiceId changes nothing else, so the default *)
(* and the discovered list of the state are those the call ran with.       *)
(***************************************************************************)
Resolved == call.op = "resolveServiceId"

\* C1: resolveServiceId(provided) returns provided unchanged whenever provided
\* is a non-empty string, whatever the default and the discovered list are; it
\* never fails in that case.
C1_ExplicitVerbatim ==
    (Resolved /\ Truthy(call.provided)) => call.outcome = Returned(call.provided)

\* a non-empty provided id was resolved while a default was configured and
\* several services were discovered
C1_Witness ==
    /\ Resolved /\ Truthy(call.provided)
    /\ Truthy(defaultServiceId)
    /\ Len(discoveredServices) >= 2
    /\ call.outcome.kind = "return"

\* C2: with provided absent or empty and a non-empty configured default,
\* resolveServiceId returns the default, whatever the discovered list holds.
C2_DefaultWhenNotProvided ==
    (Resolved /\ ~Truthy(call.provided) /\ Truthy(defaultServiceId))
        => call.outcome = Returned(defaultServiceId)

\* the empty string was provided, a default is configured, and exactly one
\* service, with another id, is discovered
C2_Witness ==
    /\ Resolved /\ call.provided = ""
    /\ Truthy(defaultServiceId)
    /\ Len(discoveredServices) = 1
    /\ discoveredServices[1].id # defaultServiceId
    /\ call.outcome.kind = "return"

\* C3: with no provided id and no configured default, resolveServiceId succeeds
\* if and only if exactly one service is discovered, and then returns that
\* service's id; with an empty list it fails with the 'no service configured'
\* error.
C3_SoleDiscovered ==
    (Resolved /\ ~Truthy(call.provided) /\ ~Truthy(defaultServiceId))
        => /\ call.outcome.kind = "return" <=> Len(discoveredServices) = 1
           /\ Len(discoveredServices) = 1
                => call.outcome = Returned(discoveredServices[1].id)
           /\ Len(discoveredServices) = 0
                => call.outcome = Thrown(NoServiceText)

\* nothing provided, no default, one discovered service, whose id is returned
C3_Witness ==
    /\ Resolved /\ call.provided = Undefined
    /\ ~Truthy(defaultServiceId)
    /\ Len(discoveredServices) = 1
    /\ call.outcome = Returned("svc1")

\* C4: with no provided id, no configured default and two or more discovered
\* services, resolveServiceId fails, no id is returned, and the error text
\* holds the name and the id of every discovered service.
C4_AmbiguousListsAll ==
    (Resolved /\ ~Truthy(call.provided) /\ ~Truthy(defaultServiceId)
              /\ Len(discoveredServices) >= 2)
        => /\ call.outcome.kind = "throw"
           /\ call.outcome.value = Undefined
           /\ \A i \in DOMAIN discoveredServices :
                \E k \in DOMAIN call.outcome.text :
                    /\ k + 2 \in DOMAIN call.outcome.text
                    /\ call.outcome.text[k] = discoveredServices[i].name
                    /\ call.outcome.text[k + 2] = discoveredServices[i].id

\* the call failed with two discovered services of distinct ids
C4_Witness ==
    /\ Resolved /\ ~Truthy(call.provided) /\ ~Truthy(defaultServiceId)
    /\ Len(discoveredServices) = 2
    /\ discoveredServices[1].id # discoveredServices[2].id
    /\ call.outcome.kind = "throw"

\* C5: every value resolveServiceId returns is a non-empty string that is the
\* caller's id, the configured default, or the id of the only discovered
\* service; it is never taken from a list of two or more.
C5_ReturnedIdIsJustified ==
    (Resolved /\ call.outcome.kind = "return")
        => /\ Truthy(call.outcome.value)
           /\ \/ call.outcome.value = call.provided
              \/ call.outcome.value = defaultServiceId
              \/ /\ Len(discoveredServices) = 1
                 /\ call.outcome.value = discoveredServices[1].id

\* the returned id is the one of the sole discovered service, while the config
\* of another directory yields no id
C5_Witness ==
    /\ Resolved /\ call.outcome.kind = "return"
    /\ ~Truthy(call.provided) /\ ~Truthy(defaultServiceId)
    /\ Len(discoveredServices) = 1
    /\ call.outcome.value = discoveredServices[1].id
    /\ fs[<<"w", "a">>] = "noid"

(***************************************************************************)
(* Claims about the HTTP handlers, checked under SpecHttp.  `settled` is   *)
(* the request answered (or dropped) by the step that led to the state.    *)
(***************************************************************************)
\* nothing but `settled` changes in the step
OnlySettles ==
    /\ transports' = transports
    /\ tr' = tr
    /\ req' = req
    /\ createServerCalls' = createServerCalls
    /\ created' = created
    /\ closed' = closed

\* request r is handed to a transport, or advances, in the step
Advances(r) == CopiesIn(r, req') > CopiesIn(r, req)

\* C6: a streaming (GET) request whose session id is missing or not in the
\* session map is answered 400 by the handler, is handed to no transport,
\* creates no transport and leaves the session map unchanged.
C6_Step ==
    (settled'.method = "GET" /\ ~settled'.known)
        => /\ settled'.status = 400
           /\ settled'.byHandler
           /\ settled'.transport = 0
           /\ ~has(transports', settled'.sid)
           /\ OnlySettles

C6_StreamingNeedsSession == [][C6_Step]_vars

\* a GET naming an id that is not in the map was answered while a session exists
C6_Witness ==
    /\ settled.method = "GET" /\ settled.sid = "ghost"
    /\ settled.status = 400
    /\ DOMAIN transports # {}

\* C7: a continuation (POST) request whose session id is in the session map is
\* handed to the transport stored for that id; handling it constructs no
\* transport, calls createServer zero times and does not change the map.
C7_Step ==
    /\ \A r \in BagToSet(req') :
         (Advances(r) /\ r.method = "POST" /\ r.known)
            => /\ r.pc = "handling"
               /\ r.transport # 0
               /\ r.transport = get(transports, r.sid)
               /\ transports' = transports
               /\ tr' = tr
               /\ createServerCalls' = createServerCalls
    /\ (settled'.method = "POST" /\ settled'.known)
            => /\ settled'.transport # 0
               /\ tr[settled'.transport].sessionId = settled'.sid
               /\ ~settled'.didInit
               /\ transports' = transports
               /\ tr' = tr
               /\ createServerCalls' = createServerCalls

C7_ContinuationReusesTransport == [][C7_Step]_vars

\* a POST naming a session of the map was answered by that session's transport,
\* with two transports constructed so far
C7_Witness ==
    /\ settled.method = "POST" /\ settled.known
    /\ settled.status = 200
    /\ Len(tr) = 2
    /\ tr[settled.transport].sessionId = settled.sid

\* C8: a termination (DELETE) request with a supplied session id: for an id of
\* the map, the transport is closed and the entry removed when 204 is sent; for
\* an id not in the map, 204 is sent, no transport is closed and the map is
\* unchanged (so repeating a termination is a no-op success).
C8_Step ==
    /\ (settled'.method = "DELETE" /\ settled'.known /\ settled'.status = 204)
            => /\ ~has(transports', settled'.sid)
               /\ tr'[settled'.transport].closed
               /\ tr'[settled'.transport].sessionId = settled'.sid
    /\ (settled'.method = "DELETE" /\ Truthy(settled'.sid) /\ ~settled'.known)
            => /\ settled'.status = 204
               /\ settled'.transport = 0
               /\ OnlySettles

C8_Termination == [][C8_Step]_vars

\* the termination of a session of the map was acknowledged
C8_Witness ==
    /\ settled.method = "DELETE" /\ settled.known
    /\ settled.status = 204
    /\ ~has(transports, settled.sid)

\* C9: a termination (DELETE) request that supplies no session id is answered
\* 400, not the 204 of a supplied but unknown id; it closes no transport, makes
\* no callback and leaves the session map unchanged.
C9_Step ==
    /\ (settled'.method = "DELETE" /\ ~Truthy(settled'.sid))
            => /\ settled'.status = 400
               /\ settled'.byHandler
               /\ settled'.transport = 0
               /\ OnlySettles
    /\ (settled'.method = "DELETE" /\ Truthy(settled'.sid) /\ ~settled'.known)
            => settled'.status = 204

C9_TerminationNeedsId == [][C9_Step]_vars

\* a DELETE without a session id was answered 400 while a session exists
C9_Witness ==
    /\ settled.method = "DELETE" /\ settled.sid = Undefined
    /\ settled.status = 400
    /\ DOMAIN transports # {}

\* C10: for every session, the entry is removed and onSessionClosed is called
\* exactly once with its id: not at all while the session is in the map, once
\* when it has ended, never twice.
C10_ClosedExactlyOnce ==
    \A sessionId \in DOMAIN created :
        Count(closed, sessionId) = IF has(transports, sessionId) THEN 0 ELSE 1

\* the session ids under which map m holds transport t
EntriesOf(m, t) == {sessionId \in DOMAIN m : m[sessionId] = t}

\* C11: on the initiation path the entry of a new transport is installed only
\* by the transport's session-initialized callback, in the step in which the
\* transport gets its session id: while handlePost is suspended in createServer
\* or connect the map holds no entry for its transport, and a request that
\* fails before initialization is reported leaves no entry for its transport.
C11_Step ==
    /\ \A sessionId \in DOMAIN transports' \ DOMAIN transports :
         LET t == transports'[sessionId] IN
         /\ t \in DOMAIN tr
         /\ tr[t].sessionId = Undefined /\ tr'[t].sessionId = sessionId
         /\ tr[t].connected
         /\ \E q \in BagToSet(req) :
              /\ q.transport = t /\ q.pc = "handling" /\ ~q.didInit
              /\ [q EXCEPT !.didInit = TRUE] \in BagToSet(req')
    /\ \A r \in BagToSet(req') :
         r.pc \in {"createServer", "connect"} => EntriesOf(transports', r.transport) = {}
    /\ (settled'.method = "POST" /\ ~settled'.known /\ ~settled'.didInit)
            => EntriesOf(transports', settled'.transport) = {}
    /\ \A t \in DOMAIN tr' :
         tr'[t].sessionId = Undefined => EntriesOf(transports', t) = {}

C11_InstalledOnlyWhenInitialized == [][C11_Step]_vars

\* an initiation failed in server.connect and left no entry, while the entry of
\* an initialized session is in the map
C11_Witness ==
    /\ settled.method = "POST" /\ settled.pc = "rejected"
    /\ tr[settled.transport].onclose
    /\ EntriesOf(transports, settled.transport) = {}
    /\ DOMAIN transports # {}

\* request r is on the initiation path of handlePost
Initiation(r) == r.method = "POST" /\ ~r.known

\* C12: initiation requests handled in any interleaving each hold their own
\* newly constructed transport and get their own generated session id; when a
\* transport reports initialization its entry is added under an id the map did
\* not hold, and every entry the map held stays as it was.
C12_Step ==
    /\ \A r \in BagToSet(req') :
         Initiation(r) =>
            /\ CopiesIn(r, req') = 1
            /\ \A r2 \in BagToSet(req') :
                 (Initiation(r2) /\ r2 # r) => r2.transport # r.transport
            /\ (Advances(r) /\ r.pc = "createServer") =>
                 /\ r.transport \notin DOMAIN tr
                 /\ r.transport \in DOMAIN tr'
                 /\ tr'[r.transport] = NewTransport
    /\ \A t \in DOMAIN tr :
         (tr[t].sessionId = Undefined /\ tr'[t].sessionId # Undefined) =>
            /\ ~has(transports, tr'[t].sessionId)
            /\ get(transports', tr'[t].sessionId) = t
            /\ \A sessionId \in DOMAIN transports :
                 /\ has(transports', sessionId)
                 /\ transports'[sessionId] = transports[sessionId]
    /\ \A t1, t2 \in DOMAIN tr' :
         (t1 # t2 /\ tr'[t1].sessionId # Undefined) =>
            tr'[t1].sessionId # tr'[t2].sessionId

C12_ConcurrentInitiations == [][C12_Step]_vars

\* two initiations without a session id are both suspended in handleRequest,
\* both initialized, and the map holds their two entries
C12_Witness ==
    /\ \E r1, r2 \in BagToSet(req) :
         /\ r1 # r2
         /\ r1.sid = Undefined /\ r2.sid = Undefined
         /\ Initiation(r1) /\ Initiation(r2)
         /\ r1.didInit /\ r2.didInit
         /\ get(transports, tr[r1.transport].sessionId) = r1.transport
         /\ get(transports, tr[r2.transport].sessionId) = r2.transport
    /\ Cardinality(DOMAIN transports) = 2

\* the handler of request q, which was suspended, reaches its end in the step
Ends(q) ==
    /\ CopiesIn(q, req') < CopiesIn(q, req)
    /\ BagCardinality(req') < BagCardinality(req)

\* C13: a POST or GET handler suspended in transport.handleRequest never
\* rejects; when handleRequest raised an error, onError is called, 500 is sent
\* by the handler exactly when the transport had not answered, and the session
\* map and the transports are as before, so the session id still reaches the
\* same transport.
C13_Step ==
    \A q \in BagToSet(req) :
        (q.pc = "handling" /\ Ends(q)) =>
            /\ settled'.pc = "done"
            /\ settled'.status # 0
            /\ settled'.byHandler <=> settled'.status = 500
            /\ settled'.byHandler => settled'.onError
            /\ settled'.onError =>
                 /\ transports' = transports
                 /\ tr' = tr
                 /\ closed' = closed
                 /\ get(transports', q.sid) = get(transports, q.sid)

C13_HandleRequestErrorsCaught == [][C13_Step]_vars

\* an error of handleRequest on a known session was answered 500 and the
\* session still maps to its transport
C13_Witness ==
    /\ settled.onError /\ settled.status = 500 /\ settled.byHandler
    /\ settled.known
    /\ get(transports, settled.sid) = settled.transport

\* C14: every handler's promise resolves and every request receives a
\* response: an exception raised at any step of handlePost, handleGet or
\* handleDelete (createServer, server.connect and transport.close included) is
\* caught in the handler and answered.
C14_EveryRequestAnswered ==
    settled.method # "none" => (settled.pc = "done" /\ settled.status # 0)

\* C15: a POST or GET request carrying a session id that is not in the session
\* map is rejected by the handler with 400 at once: it is handed to no
\* transport, and no transport is constructed, createServer is not called and
\* the map is unchanged.
C15_Step ==
    \A r \in BagToSet(req') \cup {settled'} :
        (r.method \in {"POST", "GET"} /\ Truthy(r.sid) /\ ~r.known) =>
            /\ r = settled'
            /\ r.status = 400
            /\ r.transport = 0
            /\ OnlySettles

C15_UnknownIdRejected == [][C15_Step]_vars

\* transport t has not closed
Live(t) == ~tr[t].closed

\* C16: each session id is associated with at most one live transport: an
\* entry of the map holds the transport that carries the entry's id, and no two
\* distinct transports that have not closed carry the same session id.
C16_OneLiveTransportPerId ==
    /\ \A sessionId \in DOMAIN transports :
         /\ transports[sessionId] \in DOMAIN tr
         /\ tr[transports[sessionId]].sessionId = sessionId
    /\ \A t1, t2 \in DOMAIN tr :
         (t1 # t2 /\ Live(t1) /\ Live(t2) /\ tr[t1].sessionId # Undefined)
            => tr[t1].sessionId # tr[t2].sessionId

\* two sessions are live at the same time, each with its own entry
C16_Witness ==
    \E t1, t2 \in DOMAIN tr :
        /\ t1 # t2 /\ Live(t1) /\ Live(t2)
        /\ get(transports, tr[t1].sessionId) = t1
        /\ get(transports, tr[t2].sessionId) = t2

\* the session ids whose entry changes, and the transports that close, in the step
ChangedEntries ==
    {sessionId \in DOMAIN transports \cup DOMAIN transports' :
        get(transports, sessionId) # get(transports', sessionId)}
ClosedNow == {t \in DOMAIN tr : ~tr[t].closed /\ tr'[t].closed}

\* request r is the one whose handler runs in the step
Runs(r) ==
    \/ r = settled' /\ r.method # "none"
    \/ r \in BagToSet(req') /\ Advances(r)

\* C17: sessions are independent: a step that concerns session id s (a request
\* naming s, an error while handling it, its transport closing, an initiation
\* installing s) changes the map entry of no other id and closes no transport
\* but the one of s; a request rejected for a missing or unknown id and a
\* handler error change no entry and close no transport.
C17_Step ==
    /\ Cardinality(ChangedEntries) <= 1
    /\ Cardinality(ClosedNow) <= 1
    /\ \A t \in ClosedNow : ChangedEntries \subseteq {tr[t].sessionId}
    /\ \A r \in BagToSet(req') \cup {settled'} :
         Runs(r) =>
            /\ r.known =>
                 /\ ChangedEntries \subseteq {r.sid}
                 /\ ClosedNow \subseteq {r.transport}
            /\ ~r.known =>
                 /\ ClosedNow = {}
                 /\ \A sessionId \in ChangedEntries :
                      /\ r.transport # 0
                      /\ ~has(transports, sessionId)
                      /\ tr'[r.transport].sessionId = sessionId
            /\ (r.onError \/ (r.byHandler /\ r.status = 400)) =>
                 /\ ChangedEntries = {}
                 /\ ClosedNow = {}

C17_SessionsIndependent == [][C17_Step]_vars

\* a session was terminated while another session keeps its entry and its
\* live transport
C17_Witness ==
    /\ settled.method = "DELETE" /\ settled.known /\ settled.status = 204
    /\ \E sessionId \in DOMAIN transports :
         /\ sessionId # settled.sid
         /\ Live(transports[sessionId])

(***************************************************************************)
(* Claims about McpSessionManager, checked under SpecManager.              *)
(***************************************************************************)
\* the entries of every id but sessionId are the same before and after the step
OthersKept(sessionId) ==
    \A x \in (DOMAIN transports \cup DOMAIN transports') \ {sessionId} :
        get(transports', x) = get(transports, x)

\* C18: set(id, T) makes has(id) true and get(id) return T; delete(id) returns
\* true exactly when an entry for id existed and leaves has(id) false, so a
\* delete(id) right after a delete(id) returns false; get, has and
\* getSessionIds do not change the map; set and delete on id leave the entries
\* of the other ids as they were.
C18_Step ==
    /\ call'.op = "set" =>
         /\ has(transports', call'.sid)
         /\ get(transports', call'.sid) = call'.transport
         /\ OthersKept(call'.sid)
    /\ call'.op = "delete" =>
         /\ call'.result = has(transports, call'.sid)
         /\ ~has(transports', call'.sid)
         /\ OthersKept(call'.sid)
         /\ (call.op = "delete" /\ call.sid = call'.sid) => call'.result = FALSE
    /\ call'.op = "get" =>
         /\ transports' = transports
         /\ call'.result = get(transports, call'.sid)
         /\ (call.op = "set" /\ call.sid = call'.sid) => call'.result = call.transport
         /\ (call.op = "delete" /\ call.sid = call'.sid) => call'.result = 0
    /\ call'.op = "has" =>
         /\ transports' = transports
         /\ call'.result = has(transports, call'.sid)
         /\ (call.op = "set" /\ call.sid = call'.sid) => call'.result = TRUE
         /\ (call.op = "delete" /\ call.sid = call'.sid) => call'.result = FALSE
    /\ call'.op = "getSessionIds" =>
         /\ transports' = transports
         /\ call'.result = DOMAIN transports

C18_ManagerAlgebra == [][C18_Step]_vars

\* a delete removed an existing entry and returned true, another entry remains
C18_Witness ==
    /\ call.op = "delete" /\ call.result = TRUE
    /\ ~has(transports, call.sid)
    /\ DOMAIN transports # {}

(***************************************************************************)
(* Claims about discovery, checked under SpecResolver in the state a call  *)
(* of discoverFromRoots leads to.                                          *)
(***************************************************************************)
Discovered == call.op = "discoverFromRoots"

\* the directory the search of a root starts from
StartOf(root) == IF realpathThrows(root) THEN root ELSE realpathSync(root)

\* p is dir or an ancestor of dir; p is an ancestor of dir
Within(p, dir) == Len(p) <= Len(dir) /\ SubSeq(dir, 1, Len(p)) = p
Above(p, dir) == Within(p, dir) /\ p # dir

\* dir holds a .tusk/config.yaml that yields a service id
HasIdConfig(dir) ==
    /\ existsSync(fs, pathJoin(dir, ConfigNames))
    /\ Truthy(parseConfigYaml(fs, pathJoin(dir, ConfigNames)).id)

RootPaths == {discoveredServices[i].rootPath : i \in DOMAIN discoveredServices}

\* the search started at `start` walks down to dir: dir is at most maxDepth
\* levels below, every directory from start down to dir's parent is readable
\* and holds no config, and no name on the way is skipped
Reaches(start, dir) ==
    /\ Within(start, dir)
    /\ Len(dir) - Len(start) <= maxDepth
    /\ \A p \in Dirs : (Within(start, p) /\ Above(p, dir)) => fs[p] = "plain"
    /\ \A i \in (Len(start) + 1)..Len(dir) :
         Descend([name |-> dir[i], isDirectory |-> TRUE])

\* C19: with a single root, a directory the search reaches that holds a config
\* with an id is recorded, and no directory below a directory holding a config
\* with an id is recorded, in whatever order the entries are read.
C19_FirstMatchWins ==
    (Discovered /\ Len(call.roots) = 1) =>
        LET start == StartOf(call.roots[1]) IN
        /\ \A dir \in Dirs :
             (HasIdConfig(dir) /\ Reaches(start, dir)) => dir \in RootPaths
        /\ \A dir \in RootPaths : \A p \in Dirs :
             (Within(start, p) /\ Above(p, dir)) => ~HasIdConfig(p)

\* root w: w/a holds a config with an id and is recorded, w/a/b holds one too
C19_Witness ==
    /\ Discovered /\ call.roots = << <<"w">> >>
    /\ HasIdConfig(<<"w", "a">>) /\ HasIdConfig(<<"w", "a", "b">>)
    /\ <<"w", "a">> \in RootPaths

\* C20: for every list of roots, nested roots included, no discovered service
\* has a rootPath that lies below a directory of the searched trees that itself
\* holds a .tusk/config.yaml.
C20_NoServiceBelowAConfig ==
    Discovered =>
        \A dir \in RootPaths : \A p \in Dirs :
            (/\ Above(p, dir)
             /\ \E i \in DOMAIN call.roots : Within(StartOf(call.roots[i]), p))
                => ~existsSync(fs, pathJoin(p, ConfigNames))

\* C21: a discoverFromRoots(roots) call leaves as the discovered list exactly
\* what its scan of roots found, whatever the list held before; every step
\* leaves the list whole (the old one or the one of the scan), and discovery
\* does not change the configured default id.
C21_Step ==
    /\ call'.op = "discoverFromRoots" =>
         /\ \E ord \in Orders :
              discoveredServices' = findTuskConfigs(fs, ord, call'.roots)
         /\ defaultServiceId' = defaultServiceId
    /\ call'.op # "discoverFromRoots" => discoveredServices' = discoveredServices

C21_ListIsLastScan == [][C21_Step]_vars

\* a scan of a root that does not exist left the list empty although the file
\* system holds a config another root would find
C21_Witness ==
    /\ Discovered /\ call.roots = << <<"missing">> >>
    /\ discoveredServices = << >>
    /\ HasIdConfig(<<"w">>)

\* a root that does not exist or cannot be resolved, or whose directory cannot be read
BadRoot(root) ==
    \/ realpathThrows(root)
    \/ StartOf(root) \notin Dirs
    \/ fs[StartOf(root)] = "unreadableDir"

GoodRoots(roots) == SelectSeq(roots, LAMBDA root : ~BadRoot(root))

\* C22: bad roots, unreadable directories and unreadable config files
\* contribute no service and do not disturb the scan: the list is the one the
\* scan of the other roots alone gives, wherever the bad roots sit; no service
\* is recorded at an unreadable directory or config; and every config with an
\* id that the search from the first good root reaches is recorded.
C22_FailuresAbsorbed ==
    Discovered =>
        /\ \E ord \in Orders :
             discoveredServices = findTuskConfigs(fs, ord, GoodRoots(call.roots))
        /\ \A dir \in RootPaths :
             dir \in Dirs /\ fs[dir] \notin {"unreadableDir", "unreadableFile"}
        /\ GoodRoots(call.roots) # << >> =>
             \A dir \in Dirs :
                (HasIdConfig(dir) /\ Reaches(StartOf(GoodRoots(call.roots)[1]), dir))
                    => dir \in RootPaths

\* a root that does not exist comes first, w/a cannot be read, and the service
\* in w/n is recorded
C22_Witness ==
    /\ Discovered /\ call.roots = << <<"missing">>, <<"w">> >>
    /\ fs[<<"w", "a">>] = "unreadableDir"
    /\ <<"w", "n">> \in RootPaths

\* C24: a recorded directory lies at most maxDepth (3) levels below a root of
\* the call, and every directory at level 0, 1, 2 or 3 below a root that holds
\* a config with an id, with no config above it up to that root, is recorded.
C24_DepthBound ==
    Discovered =>
        /\ \A dir \in RootPaths : \E i \in DOMAIN call.roots :
             /\ Within(StartOf(call.roots[i]), dir)
             /\ Len(dir) - Len(StartOf(call.roots[i])) <= maxDepth
        /\ \A i \in DOMAIN call.roots : \A dir \in Dirs :
             (HasIdConfig(dir) /\ Reaches(StartOf(call.roots[i]), dir))
                => dir \in RootPaths

\* the search started at `start` walks down to dir when a config that yields
\* no id counts as no config
ReachesPastIdless(start, dir) ==
    /\ Within(start, dir)
    /\ Len(dir) - Len(start) <= maxDepth
    /\ \A p \in Dirs :
         (Within(start, p) /\ Above(p, dir)) =>
            (fs[p] # "unreadableDir" /\ ~HasIdConfig(p))
    /\ \A i \in (Len(start) + 1)..Len(dir) :
         Descend([name |-> dir[i], isDirectory |-> TRUE])

\* C25: a directory whose config yields no id is searched like a directory
\* without a config: with a single root, a config with an id below such a
\* directory (and below no config with an id) is recorded.
C25_IdlessConfigIsNoConfig ==
    (Discovered /\ Len(call.roots) = 1) =>
        \A dir \in Dirs :
            (HasIdConfig(dir) /\ ReachesPastIdless(StartOf(call.roots[1]), dir))
                => dir \in RootPaths

\* C30: getServicesDescription agrees with resolveServiceId(undefined): the
\* service it says is in use is the one resolveServiceId(undefined) returns,
\* and when it says that several services are available and an id must be
\* specified, resolveServiceId(undefined) fails.
C30_DescriptionAgreesWithResolution ==
    call.op = "getServicesDescription" =>
        /\ call.text[1] = "Using configured service: " =>
             resolveServiceId(Undefined) = Returned(call.text[2])
        /\ call.text[1] = "Using service: \"" =>
             resolveServiceId(Undefined) = Returned(call.text[4])
        /\ call.text[1] = "Multiple services available. Specify observableServiceId when querying:\n" =>
             resolveServiceId(Undefined).kind = "throw"

(***************************************************************************)
(* Claims about the API client and the tools, checked under SpecTools.     *)
(***************************************************************************)
ToolCalled == call.op \in ToolNames

\* C23: every request the API client sends carries as observableServiceId the
\* value its resolution returned for that call, a non-empty string, and the
\* rest of the input; when the resolution fails, the operation fails with the
\* resolver's error and no request is sent.
C23_RequestsCarryResolvedId ==
    (ToolCalled /\ call.outcome.kind # "denied") =>
        /\ call.outcome = clientResolveServiceId(call.input.observableServiceId)
        /\ call.outcome.kind = "return" =>
             /\ Len(call.fetched) = 1
             /\ call.fetched[1].body.observableServiceId = call.outcome.value
             /\ Truthy(call.fetched[1].body.observableServiceId)
             /\ call.fetched[1].body.limit = call.input.limit
        /\ call.outcome.kind = "throw" =>
             /\ call.fetched = << >>
             /\ call.outcome.text \in
                  {NoContextText, NoServiceText, MultipleText(discoveredServices)}

\* an input without observableServiceId was sent with the id of the sole
\* discovered service
C23_Witness ==
    /\ ToolCalled /\ call.input.observableServiceId = Undefined
    /\ serviceContext /\ Len(discoveredServices) = 1
    /\ Len(call.fetched) = 1
    /\ call.fetched[1].body.observableServiceId = discoveredServices[1].id

\* C27: every transport handlePost constructs and connects to a server is
\* eventually installed in the session map or closed.
C27_NoOrphanTransport ==
    \A t \in 1..MaxTransports :
        (t \in DOMAIN tr /\ tr[t].connected)
            ~> (t \in DOMAIN tr /\ (tr[t].closed \/ EntriesOf(transports, t) # {}))

\* C28: the callbacks agree with the map: when onSessionCreated(id) is called
\* the entry for id has just been installed; when onSessionClosed(id) is called
\* onSessionCreated(id) has been called before and the map holds no entry for id.
C28_Step ==
    \A sessionId \in DOMAIN created' \cup DOMAIN closed' :
        /\ Count(created', sessionId) > Count(created, sessionId) =>
             /\ ~has(transports, sessionId)
             /\ has(transports', sessionId)
        /\ Count(closed', sessionId) > Count(closed, sessionId) =>
             /\ Count(created, sessionId) >= 1
             /\ ~has(transports', sessionId)

C28_CallbacksFollowTheMap == [][C28_Step]_vars

\* a session was created and closed, its callbacks called, and its entry is gone
C28_Witness ==
    \E sessionId \in DOMAIN closed :
        /\ Count(created, sessionId) = 1
        /\ Count(closed, sessionId) >= 1
        /\ ~has(transports, sessionId)

(***************************************************************************)
(* Claims about a session manager shared with the caller, checked under    *)
(* SpecShared.                                                             *)
(***************************************************************************)
\* C26: when a transport closes, its teardown hook removes an entry only if
\* the entry maps to that transport: an entry the caller has set to another
\* transport is not removed by the closing of the old one.
C26_Step ==
    \A t \in ClosedNow :
        \A sessionId \in DOMAIN transports \ DOMAIN transports' :
            transports[sessionId] = t

C26_HookRemovesOwnEntryOnly == [][C26_Step]_vars

\* C29: with access control configured, no request is sent to the remote
\* engine for a service canAccessService denies, also when the input names no
\* service and the provider resolves the id itself.
C29_NoQueryForDeniedService ==
    (ToolCalled /\ accessControl.configured) =>
        \A i \in DOMAIN call.fetched :
            call.fetched[i].body.observableServiceId \notin accessControl.denied

====
